---- MODULE Spec2Model ----
(***************************************************************************)
(* Tissue Engineering Alzheimer's gene database (src/script.js).           *)
(*                                                                         *)
(* Two independent parts of the page are modelled:                         *)
(*   - the record search / pagination / export engine (globals             *)
(*     databaseData, filteredData, currentPage and the DOM nodes           *)
(*     geneSearch, dynamicContent, pagination);                            *)
(*   - the sequence tool panel (toolBody with its textarea and result      *)
(*     node, and the helpers getComplement, getReverseComplement, ...).    *)
(* The handlers of one part never read or write the state of the other,    *)
(* so each part has its own next-state relation over the same variables.   *)
(*                                                                         *)
(* A JavaScript string is a sequence of one-character strings.             *)
(***************************************************************************)
EXTENDS Integers, Sequences, FiniteSets, TLC

VARIABLES
  loadState,       \* position of loadDatabase: "pending", "loaded", "failed"
  databaseData,    \* global databaseData
  filteredData,    \* global filteredData
  currentPage,     \* global currentPage
  geneSearch,      \* value of the #geneSearch input
  dynamicContent,  \* what #dynamicContent shows
  pagination,      \* the controls inside #pagination
  alertMsg,        \* alert() raised by the most recent handler, or "none"
  download,        \* file handed to the browser by the most recent handler
  event,           \* the handler that ran most recently
  toolShown,       \* #toolContent is displayed
  toolName,        \* the tool whose form is in #toolBody, or "none"
  seqInput,        \* value of the textarea of the tool form
  toolResults      \* content of the result node of the tool form

toolVars == <<toolShown, toolName, seqInput, toolResults>>
vars == <<loadState, databaseData, filteredData, currentPage,
          geneSearch, dynamicContent, pagination, alertMsg, download, event,
          toolShown, toolName, seqInput, toolResults>>

----------------------------------------------------------------------------
(* Bounds of the model                                                     *)

MaxQueryLen == 2
MaxStoreLen == 2
MaxRecords == 61

(* Program constant                                                        *)
itemsPerPage == 10

----------------------------------------------------------------------------
(* Characters and strings                                                  *)

DQ == "\""
NL == "\n"
COMMA == ","
SP == " "

Min(S) == CHOOSE x \in S : \A y \in S : x <= y
Max(S) == CHOOSE x \in S : \A y \in S : x >= y

SeqsUpTo(S, n) == UNION {[1..k -> S] : k \in 0..n}

RECURSIVE Flatten(_)
Flatten(ss) == IF ss = <<>> THEN <<>> ELSE Head(ss) \o Flatten(Tail(ss))

\* Array.prototype.join
RECURSIVE join(_, _)
join(ss, sep) ==
  IF ss = <<>> THEN <<>>
  ELSE IF Len(ss) = 1 THEN ss[1]
  ELSE ss[1] \o sep \o join(Tail(ss), sep)

\* String.prototype.toLowerCase, on the letters the model uses
LowerOf(c) ==
  CASE c = "A" -> "a"
    [] c = "B" -> "b"
    [] OTHER -> c
toLowerCase(s) == [i \in 1..Len(s) |-> LowerOf(s[i])]

\* String.prototype.toUpperCase, on the letters the model uses
UpperOf(c) ==
  CASE c = "a" -> "A"
    [] c = "c" -> "C"
    [] c = "g" -> "G"
    [] c = "t" -> "T"
    [] c = "u" -> "U"
    [] c = "n" -> "N"
    [] OTHER -> c
toUpperCase(s) == [i \in 1..Len(s) |-> UpperOf(s[i])]

IsSpace(c) == c = SP

\* String.prototype.trim
trim(s) ==
  LET keep == {i \in 1..Len(s) : ~IsSpace(s[i])}
  IN IF keep = {} THEN <<>> ELSE SubSeq(s, Min(keep), Max(keep))

\* String.prototype.includes
includes(s, t) ==
  \E i \in 0..(Len(s) - Len(t)) : SubSeq(s, i + 1, i + Len(t)) = t

----------------------------------------------------------------------------
(* JSON values and gene records                                            *)

Str(s) == [t |-> "string", s |-> s, n |-> 0]
Num(k) == [t |-> "number", s |-> <<>>, n |-> k]
Null == [t |-> "null", s |-> <<>>, n |-> 0]
Absent == [t |-> "undefined", s |-> <<>>, n |-> 0]

\* JavaScript truthiness of a value
Truthy(v) ==
  CASE v.t = "string" -> v.s # <<>>
    [] v.t = "number" -> v.n # 0
    [] OTHER -> FALSE

\* the 14 columns exportResults writes, in its order
Columns ==
  <<"gene_name", "variant", "disease", "function", "ad_mechanism",
    "oxidative_stress", "angiogenesis", "neural_survival", "te_relevance",
    "scaffold_strategy", "cell_type", "growth_factors",
    "biomaterial_suggestion", "regeneration_outcome">>

ColumnSet == {Columns[i] : i \in 1..Len(Columns)}

\* row.name: undefined when the object has no such key
get(row, name) == IF name \in DOMAIN row THEN row[name] ELSE Absent

\* Object.values(row)
values(row) == {row[k] : k \in DOMAIN row}

\* records of the file: objects that carry only some of the keys, with string,
\* empty, null and numeric values
RecordPool ==
  { [gene_name |-> Str(<<"A", "b">>), variant |-> Str(<<"b", "A">>)],
    [gene_name |-> Str(<<DQ, "a", DQ>>), variant |-> Null],
    [gene_name |-> Str(<<>>), variant |-> Str(<<"b", "A">>)],
    [gene_name |-> Str(<<"A", "b">>), variant |-> Num(5)],
    [gene_name |-> Str(<<>>), variant |-> Null, id |-> Num(7)] }

\* catalogues of a few records with varied field values
SmallStores == SeqsUpTo(RecordPool, MaxStoreLen)

\* catalogues of n numbered records, every one named "a", every fourth a "b" variant
NumberedRecord(i) ==
  IF i % 4 = 0
  THEN [gene_name |-> Str(<<"a">>), variant |-> Str(<<"b">>), id |-> Num(i)]
  ELSE [gene_name |-> Str(<<"a">>), id |-> Num(i)]
NumberedStore(n) == [i \in 1..n |-> NumberedRecord(i)]
LargeStores == {NumberedStore(n) : n \in 0..MaxRecords}

\* the payloads alzheimers_data.json may parse to
Stores == SmallStores \cup LargeStores

\* what the user may type into #geneSearch
QueryChars == {"A", "b", SP}
Queries == SeqsUpTo(QueryChars, MaxQueryLen)

----------------------------------------------------------------------------
(* Views                                                                   *)

InitialView == [kind |-> "initial", rows |-> <<>>, first |-> 0, last |-> 0, total |-> 0]
PromptView == [kind |-> "prompt", rows |-> <<>>, first |-> 0, last |-> 0, total |-> 0]
NoResultsView == [kind |-> "noresults", rows |-> <<>>, first |-> 0, last |-> 0, total |-> 0]
ErrorView == [kind |-> "error", rows |-> <<>>, first |-> 0, last |-> 0, total |-> 0]
ResultsView(rows, first, last, total) ==
  [kind |-> "results", rows |-> rows, first |-> first, last |-> last, total |-> total]

NoFile == [produced |-> FALSE, text |-> <<>>]
File(text) == [produced |-> TRUE, text |-> text]

----------------------------------------------------------------------------
(* Search                                                                  *)

\* faulty variant: the search term is lower-cased but not trimmed
searchTermUntrimmed(value) == toLowerCase(value)

\* performSearch, line 100: the normalised search term
searchTermOf(value) == toLowerCase(trim(value))

\* faulty variant: the value is compared without lower-casing it
valueMatchesCaseSensitive(value, searchTerm) ==
  IF Truthy(value) /\ value.t = "string"
  THEN includes(value.s, searchTerm)
  ELSE FALSE

\* performSearch, lines 110-113: the test applied to one value of a row
valueMatches(value, searchTerm) ==
  IF Truthy(value) /\ value.t = "string"
  THEN includes(toLowerCase(value.s), searchTerm)
  ELSE FALSE

\* performSearch, line 109: Object.values(row).some(...)
rowMatches(row, searchTerm) ==
  \E value \in values(row) : valueMatches(value, searchTerm)

\* performSearch, line 108: databaseData.filter(...)
filterRows(data, searchTerm) ==
  LET keep(row) == rowMatches(row, searchTerm)
  IN SelectSeq(data, keep)

----------------------------------------------------------------------------
(* Display and pagination                                                  *)

\* Math.ceil(n / d) for n >= 0, d > 0
ceilDiv(n, d) == IF n % d = 0 THEN n \div d ELSE (n \div d) + 1

\* Array.prototype.slice(begin, end)
slice(arr, b, e) ==
  LET n == Len(arr)
      from == IF b < 0 THEN (IF n + b < 0 THEN 0 ELSE n + b) ELSE (IF b > n THEN n ELSE b)
      to == IF e < 0 THEN (IF n + e < 0 THEN 0 ELSE n + e) ELSE (IF e > n THEN n ELSE e)
  IN IF from >= to THEN <<>> ELSE SubSeq(arr, from + 1, to)

\* displayResults, line 140
totalPagesOf(data) == ceilDiv(Len(data), itemsPerPage)

\* faulty variant: the page offset is one page too far
startIndexOffByOne(page) == page * itemsPerPage

\* displayResults, line 141
startIndexOf(page) == (page - 1) * itemsPerPage

\* displayResults, line 142
paginatedDataOf(data, page) ==
  slice(data, startIndexOf(page), startIndexOf(page) + itemsPerPage)

PrevButton(page) ==
  [type |-> "prev", target |-> page - 1, disabled |-> (page = 1), active |-> FALSE]
\* faulty variant: the next button stays enabled on the last page
NextButtonAlwaysEnabled(page, totalPages) ==
  [type |-> "next", target |-> page + 1, disabled |-> FALSE, active |-> FALSE]
NextButton(page, totalPages) ==
  [type |-> "next", target |-> page + 1, disabled |-> (page = totalPages), active |-> FALSE]
PageButton(i, page) ==
  [type |-> "page", target |-> i, disabled |-> FALSE, active |-> (i = page)]
Ellipsis == [type |-> "ellipsis", target |-> 0, disabled |-> TRUE, active |-> FALSE]

\* faulty variant: every hidden page gets its own ellipsis
pageControlEllipsisEach(i, totalPages, page) ==
  IF i = 1 \/ i = totalPages \/ (i >= page - 1 /\ i <= page + 1)
  THEN <<PageButton(i, page)>>
  ELSE <<Ellipsis>>

\* renderPagination, lines 217-225: what iteration i of the loop appends
pageControl(i, totalPages, page) ==
  IF i = 1 \/ i = totalPages \/ (i >= page - 1 /\ i <= page + 1)
  THEN <<PageButton(i, page)>>
  ELSE IF i = page - 2 \/ i = page + 2
  THEN <<Ellipsis>>
  ELSE <<>>

\* renderPagination: the content of #pagination
renderPagination(totalPages, page) ==
  IF totalPages <= 1 THEN <<>>
  ELSE <<PrevButton(page)>>
       \o Flatten([i \in 1..totalPages |-> pageControl(i, totalPages, page)])
       \o <<NextButton(page, totalPages)>>

\* displayResults: the content of #dynamicContent
displayedContent(data, page) ==
  IF Len(data) = 0 THEN NoResultsView
  ELSE LET startIndex == startIndexOf(page)
           end == startIndex + itemsPerPage
       IN ResultsView(paginatedDataOf(data, page), startIndex + 1,
                      IF end < Len(data) THEN end ELSE Len(data), Len(data))

\* displayResults: the content of #pagination
displayedPagination(data, page) ==
  IF Len(data) = 0 THEN <<>> ELSE renderPagination(totalPagesOf(data), page)

----------------------------------------------------------------------------
(* Export                                                                  *)

headers ==
  << <<"G","e","n","e"," ","N","a","m","e">>,
     <<"V","a","r","i","a","n","t">>,
     <<"D","i","s","e","a","s","e">>,
     <<"F","u","n","c","t","i","o","n">>,
     <<"A","D"," ","M","e","c","h","a","n","i","s","m">>,
     <<"O","x","i","d","a","t","i","v","e"," ","S","t","r","e","s","s">>,
     <<"A","n","g","i","o","g","e","n","e","s","i","s">>,
     <<"N","e","u","r","a","l"," ","S","u","r","v","i","v","a","l">>,
     <<"T","E"," ","R","e","l","e","v","a","n","c","e">>,
     <<"S","c","a","f","f","o","l","d"," ","S","t","r","a","t","e","g","y">>,
     <<"C","e","l","l"," ","T","y","p","e">>,
     <<"G","r","o","w","t","h"," ","F","a","c","t","o","r","s">>,
     <<"B","i","o","m","a","t","e","r","i","a","l"," ","S","u","g","g","e","s","t","i","o","n">>,
     <<"R","e","g","e","n","e","r","a","t","i","o","n"," ","O","u","t","c","o","m","e">> >>

\* faulty variant: only the first quote is doubled (a replace without the g flag)
doubleFirstQuote(s) ==
  LET at == {i \in 1..Len(s) : s[i] = DQ}
  IN IF at = {} THEN s
     ELSE SubSeq(s, 1, Min(at)) \o <<DQ>> \o SubSeq(s, Min(at) + 1, Len(s))

\* s.replace(/"/g, '""')
doubleQuotes(s) ==
  Flatten([i \in 1..Len(s) |-> IF s[i] = DQ THEN <<DQ, DQ>> ELSE <<s[i]>>])

\* exportResults, line 292: (field || '') is a string for a string or a falsy
\* field; for any other field .replace is not a function and the handler throws
fieldThrows(field) == Truthy(field) /\ field.t # "string"

\* exportResults, line 292: `"${(field || '').replace(/"/g, '""')}"`
csvField(field) ==
  <<DQ>> \o doubleQuotes(IF Truthy(field) THEN field.s ELSE <<>>) \o <<DQ>>

\* exportResults, lines 288-292: one row of the file
csvLine(row) ==
  join([c \in 1..Len(Columns) |-> csvField(get(row, Columns[c]))], <<COMMA>>)

\* exportResults, lines 286-293
csvContent(data) ==
  join(<<join(headers, <<COMMA>>)>> \o [k \in 1..Len(data) |-> csvLine(data[k])], <<NL>>)

exportThrows(data) ==
  \E k \in 1..Len(data) : \E c \in 1..Len(Columns) : fieldThrows(get(data[k], Columns[c]))

----------------------------------------------------------------------------
(* Handlers of the search engine                                           *)

EmptyExportAlert == "No results to export. Please perform a search first."

InitTool ==
  /\ toolShown = FALSE
  /\ toolName = "none"
  /\ seqInput = <<>>
  /\ toolResults = [kind |-> "empty"]

InitEngine ==
  /\ loadState = "pending"
  /\ databaseData = <<>>
  /\ filteredData = <<>>
  /\ currentPage = 1
  /\ geneSearch = <<>>
  /\ dynamicContent = InitialView
  /\ pagination = <<>>
  /\ alertMsg = "none"
  /\ download = NoFile
  /\ event = "DOMContentLoaded"

\* faulty variant: a successful load runs the query left in the search box again
LoadSuccessRefreshes(payload) ==
  /\ loadState = "pending"
  /\ loadState' = "loaded"
  /\ databaseData' = payload
  /\ event' = "loadDatabase"
  /\ alertMsg' = "none"
  /\ download' = NoFile
  /\ IF searchTermOf(geneSearch) = <<>>
     THEN UNCHANGED <<filteredData, currentPage, dynamicContent, pagination>>
     ELSE /\ filteredData' = filterRows(payload, searchTermOf(geneSearch))
          /\ currentPage' = 1
          /\ dynamicContent' = displayedContent(filteredData', 1)
          /\ pagination' = displayedPagination(filteredData', 1)
  /\ UNCHANGED geneSearch
  /\ UNCHANGED toolVars

\* loadDatabase, lines 26-31: the fetch resolves, the response is OK and parses
LoadSuccess(payload) ==
  /\ loadState = "pending"
  /\ loadState' = "loaded"
  /\ databaseData' = payload
  /\ event' = "loadDatabase"
  /\ alertMsg' = "none"
  /\ download' = NoFile
  /\ UNCHANGED <<filteredData, currentPage, geneSearch, dynamicContent, pagination>>
  /\ UNCHANGED toolVars

\* loadDatabase, lines 32-35: fetch rejects, the response is not OK, or
\* response.json() rejects; showError (lines 338-345) replaces #dynamicContent
LoadFailure(cause) ==
  /\ loadState = "pending"
  /\ loadState' = "failed"
  /\ dynamicContent' = ErrorView
  /\ event' = "loadDatabase"
  /\ alertMsg' = "none"
  /\ download' = NoFile
  /\ UNCHANGED <<databaseData, filteredData, currentPage, geneSearch, pagination>>
  /\ UNCHANGED toolVars

\* faulty variant: a new search keeps the page of the previous one
PerformSearchKeepsPage(value) ==
  /\ geneSearch' = value
  /\ event' = "performSearch"
  /\ alertMsg' = "none"
  /\ download' = NoFile
  /\ LET searchTerm == searchTermOf(value)
     IN IF searchTerm = <<>>
        THEN /\ dynamicContent' = PromptView
             /\ pagination' = <<>>
             /\ UNCHANGED <<filteredData, currentPage>>
        ELSE /\ filteredData' = filterRows(databaseData, searchTerm)
             /\ UNCHANGED currentPage
             /\ dynamicContent' = displayedContent(filteredData', currentPage)
             /\ pagination' = displayedPagination(filteredData', currentPage)
  /\ UNCHANGED <<loadState, databaseData>>
  /\ UNCHANGED toolVars

\* faulty variant: a blank query clears the result set as clearResults does
PerformSearchBlankClears(value) ==
  /\ geneSearch' = value
  /\ event' = "performSearch"
  /\ alertMsg' = "none"
  /\ download' = NoFile
  /\ LET searchTerm == searchTermOf(value)
     IN IF searchTerm = <<>>
        THEN /\ dynamicContent' = PromptView
             /\ pagination' = <<>>
             /\ filteredData' = <<>>
             /\ currentPage' = 1
        ELSE /\ filteredData' = filterRows(databaseData, searchTerm)
             /\ currentPage' = 1
             /\ dynamicContent' = displayedContent(filteredData', 1)
             /\ pagination' = displayedPagination(filteredData', 1)
  /\ UNCHANGED <<loadState, databaseData>>
  /\ UNCHANGED toolVars

\* the user leaves `value` in #geneSearch and triggers performSearch
\* (search button, Enter key or filter chip)
PerformSearch(value) ==
  /\ geneSearch' = value
  /\ event' = "performSearch"
  /\ alertMsg' = "none"
  /\ download' = NoFile
  /\ LET searchTerm == searchTermOf(value)
     IN IF searchTerm = <<>>
        THEN /\ dynamicContent' = PromptView
             /\ pagination' = <<>>
             /\ UNCHANGED <<filteredData, currentPage>>
        ELSE /\ filteredData' = filterRows(databaseData, searchTerm)
             /\ currentPage' = 1
             /\ dynamicContent' = displayedContent(filteredData', 1)
             /\ pagination' = displayedPagination(filteredData', 1)
  /\ UNCHANGED <<loadState, databaseData>>
  /\ UNCHANGED toolVars

\* changePage(page), reached through the onclick of an enabled control
changePage(page) ==
  /\ currentPage' = page
  /\ dynamicContent' = displayedContent(filteredData, page)
  /\ pagination' = displayedPagination(filteredData, page)
  /\ event' = "changePage"
  /\ alertMsg' = "none"
  /\ download' = NoFile
  /\ UNCHANGED <<loadState, databaseData, filteredData, geneSearch>>
  /\ UNCHANGED toolVars

ClickPageControl ==
  \E k \in DOMAIN pagination :
    /\ pagination[k].type \in {"prev", "page", "next"}
    /\ ~pagination[k].disabled
    /\ changePage(pagination[k].target)

\* clearResults
ClearResults ==
  /\ geneSearch' = <<>>
  /\ filteredData' = <<>>
  /\ currentPage' = 1
  /\ dynamicContent' = PromptView
  /\ pagination' = <<>>
  /\ event' = "clearResults"
  /\ alertMsg' = "none"
  /\ download' = NoFile
  /\ UNCHANGED <<loadState, databaseData>>
  /\ UNCHANGED toolVars

\* faulty variant: the empty result set is exported like any other
ExportResultsUnguarded ==
  /\ event' = "exportResults"
  /\ alertMsg' = "none"
  /\ download' = IF exportThrows(filteredData) THEN NoFile
                 ELSE File(csvContent(filteredData))
  /\ UNCHANGED <<loadState, databaseData, filteredData, currentPage,
                 geneSearch, dynamicContent, pagination>>
  /\ UNCHANGED toolVars

\* exportResults
ExportResults ==
  /\ event' = "exportResults"
  /\ IF Len(filteredData) = 0
     THEN /\ alertMsg' = EmptyExportAlert
          /\ download' = NoFile
     ELSE /\ alertMsg' = "none"
          /\ download' = IF exportThrows(filteredData) THEN NoFile
                         ELSE File(csvContent(filteredData))
  /\ UNCHANGED <<loadState, databaseData, filteredData, currentPage,
                 geneSearch, dynamicContent, pagination>>
  /\ UNCHANGED toolVars

LoadCauses == {"transport", "status", "parse"}

Next ==
  \/ \E payload \in Stores : LoadSuccess(payload)
  \/ \E cause \in LoadCauses : LoadFailure(cause)
  \/ \E value \in Queries : PerformSearch(value)
  \/ ClickPageControl
  \/ ClearResults
  \/ ExportResults

Init == InitEngine /\ InitTool
Spec == Init /\ [][Next]_vars

----------------------------------------------------------------------------
(* Sequence helpers                                                        *)

chunkSize == 10
primerLength == 20
minSequenceLength == 40

\* String.prototype.substring(a, b)
substring(s, a, b) ==
  LET clamp(x) == IF x < 0 THEN 0 ELSE IF x > Len(s) THEN Len(s) ELSE x
      lo == IF clamp(a) < clamp(b) THEN clamp(a) ELSE clamp(b)
      hi == IF clamp(a) < clamp(b) THEN clamp(b) ELSE clamp(a)
  IN SubSeq(s, lo + 1, hi)

\* s.replace(/\s+/g, '')
removeWhitespace(s) ==
  LET keep(c) == ~IsSpace(c)
  IN SelectSeq(s, keep)

\* value.trim().toUpperCase().replace(/\s+/g, '')
cleanSequence(value) == removeWhitespace(toUpperCase(trim(value)))

\* s.replace(/T/g, 'U')
replaceTbyU(s) == [i \in 1..Len(s) |-> IF s[i] = "T" THEN "U" ELSE s[i]]

\* Array.prototype.reverse
reverse(s) == [i \in 1..Len(s) |-> s[Len(s) + 1 - i]]

\* faulty variant: G is paired with itself
complementOfTypo(n) ==
  CASE n = "A" -> "T"
    [] n = "T" -> "A"
    [] n = "U" -> "A"
    [] n = "C" -> "G"
    [] n = "G" -> "G"
    [] OTHER -> "N"

\* getComplement, lines 667-668: complement[n] || 'N'
complementOf(n) ==
  CASE n = "A" -> "T"
    [] n = "T" -> "A"
    [] n = "U" -> "A"
    [] n = "C" -> "G"
    [] n = "G" -> "C"
    [] OTHER -> "N"

getComplement(seq) == [i \in 1..Len(seq) |-> complementOf(seq[i])]

getReverseComplement(seq) == reverse(getComplement(seq))

\* (s.match(/[..]/g) || []).length
countOf(s, chars) == Cardinality({i \in 1..Len(s) : s[i] \in chars})

\* Math.round of a non-negative quotient num / den
roundDiv(num, den) == (2 * num + den) \div (2 * den)

calculateTm(primer) ==
  2 * countOf(primer, {"A", "T"}) + 4 * countOf(primer, {"G", "C"})

calculateGC(seq) == roundDiv(countOf(seq, {"G", "C"}) * 100, Len(seq))

formatSequence(seq) ==
  join([k \in 1..ceilDiv(Len(seq), chunkSize) |->
          substring(seq, (k - 1) * chunkSize, (k - 1) * chunkSize + chunkSize)],
       <<SP>>)

codonTable ==
  (<<"U","U","U">> :> "F") @@ (<<"U","U","C">> :> "F") @@ (<<"U","U","A">> :> "L") @@ (<<"U","U","G">> :> "L") @@
  (<<"C","U","U">> :> "L") @@ (<<"C","U","C">> :> "L") @@ (<<"C","U","A">> :> "L") @@ (<<"C","U","G">> :> "L") @@
  (<<"A","U","U">> :> "I") @@ (<<"A","U","C">> :> "I") @@ (<<"A","U","A">> :> "I") @@ (<<"A","U","G">> :> "M") @@
  (<<"G","U","U">> :> "V") @@ (<<"G","U","C">> :> "V") @@ (<<"G","U","A">> :> "V") @@ (<<"G","U","G">> :> "V") @@
  (<<"U","C","U">> :> "S") @@ (<<"U","C","C">> :> "S") @@ (<<"U","C","A">> :> "S") @@ (<<"U","C","G">> :> "S") @@
  (<<"C","C","U">> :> "P") @@ (<<"C","C","C">> :> "P") @@ (<<"C","C","A">> :> "P") @@ (<<"C","C","G">> :> "P") @@
  (<<"A","C","U">> :> "T") @@ (<<"A","C","C">> :> "T") @@ (<<"A","C","A">> :> "T") @@ (<<"A","C","G">> :> "T") @@
  (<<"G","C","U">> :> "A") @@ (<<"G","C","C">> :> "A") @@ (<<"G","C","A">> :> "A") @@ (<<"G","C","G">> :> "A") @@
  (<<"U","A","U">> :> "Y") @@ (<<"U","A","C">> :> "Y") @@ (<<"U","A","A">> :> "*") @@ (<<"U","A","G">> :> "*") @@
  (<<"C","A","U">> :> "H") @@ (<<"C","A","C">> :> "H") @@ (<<"C","A","A">> :> "Q") @@ (<<"C","A","G">> :> "Q") @@
  (<<"A","A","U">> :> "N") @@ (<<"A","A","C">> :> "N") @@ (<<"A","A","A">> :> "K") @@ (<<"A","A","G">> :> "K") @@
  (<<"G","A","U">> :> "D") @@ (<<"G","A","C">> :> "D") @@ (<<"G","A","A">> :> "E") @@ (<<"G","A","G">> :> "E") @@
  (<<"U","G","U">> :> "C") @@ (<<"U","G","C">> :> "C") @@ (<<"U","G","A">> :> "*") @@ (<<"U","G","G">> :> "W") @@
  (<<"C","G","U">> :> "R") @@ (<<"C","G","C">> :> "R") @@ (<<"C","G","A">> :> "R") @@ (<<"C","G","G">> :> "R") @@
  (<<"A","G","U">> :> "S") @@ (<<"A","G","C">> :> "S") @@ (<<"A","G","A">> :> "R") @@ (<<"A","G","G">> :> "R") @@
  (<<"G","G","U">> :> "G") @@ (<<"G","G","C">> :> "G") @@ (<<"G","G","A">> :> "G") @@ (<<"G","G","G">> :> "G")

\* translateDNA, line 600: codonTable[codon] || 'X'
residueOf(codon) ==
  IF codon \in DOMAIN codonTable THEN codonTable[codon] ELSE "X"

\* faulty variant: the loop runs while i < seq.length
loopContinuesToEnd(seq, i) == i < Len(seq)

\* translateDNA, line 598: the loop condition
loopContinues(seq, i) == i < Len(seq) - 2

\* translateDNA, lines 597-601
RECURSIVE translateFrom(_, _)
translateFrom(seq, i) ==
  IF loopContinues(seq, i)
  THEN <<residueOf(substring(seq, i, i + 3))>> \o translateFrom(seq, i + 3)
  ELSE <<>>

\* translateDNA, lines 574-576
toRNA(seq) == IF "T" \in {seq[i] : i \in 1..Len(seq)} THEN replaceTbyU(seq) ELSE seq

\* faulty variant: a sequence of exactly 40 bases is rejected too
tooShortOffByOne(seq) == Len(seq) <= minSequenceLength

\* designPrimers, line 517
tooShort(seq) == Len(seq) < minSequenceLength

primerCard(primer) ==
  [seq |-> primer, tm |-> calculateTm(primer), length |-> Len(primer),
   gc |-> calculateGC(primer)]

----------------------------------------------------------------------------
(* Handlers of the tool panel                                              *)

MaxSeqLen == 2
MaxTailLen == 7
MaxInputLen == 41

Tools == {"blast", "kegg", "primer", "translate", "complement", "uniprot", "chembl"}

EnterSequenceAlert == "Please enter a DNA sequence."
TooShortAlert == "Sequence should be at least 40 bases for primer design."

NoResults == [kind |-> "empty"]

\* what the user may leave in the textarea: every short DNA text, and three
\* longer patterns (plain DNA; DNA with a lower-case letter; lower-case text
\* after a blank, with U and a letter that is no base) cut to a few bases or to
\* about the length primer design asks for
SeqChars == {"A", "C", "G", "T"}
Repeat(seed, n) == [i \in 1..n |-> seed[((i - 1) % Len(seed)) + 1]]
Seeds ==
  { <<"A", "T", "G", "C", "C">>,
    <<"g", "A", "T", "T", "A", "C", "A">>,
    <<SP>> \o Repeat(<<"a", "C", "G", "u", "n", "T", "T">>, MaxInputLen) }
InputLengths == (0..MaxTailLen) \cup ((minSequenceLength - 1)..MaxInputLen)
SeqInputs ==
  SeqsUpTo(SeqChars, MaxSeqLen) \cup {Repeat(seed, n) : seed \in Seeds, n \in InputLengths}

engineVars == <<loadState, databaseData, filteredData, currentPage, geneSearch,
                dynamicContent, pagination, download>>

\* showTool: the form of the tool replaces #toolBody
ShowTool(name) ==
  /\ toolShown' = TRUE
  /\ toolName' = name
  /\ seqInput' = <<>>
  /\ toolResults' = NoResults
  /\ event' = "showTool"
  /\ alertMsg' = "none"
  /\ UNCHANGED engineVars

\* closeTool
CloseTool ==
  /\ toolShown' = FALSE
  /\ event' = "closeTool"
  /\ alertMsg' = "none"
  /\ UNCHANGED <<toolName, seqInput, toolResults>>
  /\ UNCHANGED engineVars

\* a button of the form of tool `name` is clicked with `value` in the textarea;
\* an empty cleaned sequence is refused by every sequence handler
ToolClick(name, handler, value) ==
  /\ toolShown /\ toolName = name
  /\ seqInput' = value
  /\ event' = handler
  /\ UNCHANGED <<toolShown, toolName>>
  /\ UNCHANGED engineVars

\* designPrimers
DesignPrimers(value) ==
  /\ ToolClick("primer", "designPrimers", value)
  /\ LET seq == cleanSequence(value)
     IN IF seq = <<>>
        THEN alertMsg' = EnterSequenceAlert /\ UNCHANGED toolResults
        ELSE IF tooShort(seq)
        THEN alertMsg' = TooShortAlert /\ UNCHANGED toolResults
        ELSE /\ alertMsg' = "none"
             /\ toolResults' =
                  [kind |-> "primers",
                   forward |-> primerCard(substring(seq, 0, primerLength)),
                   reverse |-> primerCard(getReverseComplement(
                                 substring(seq, Len(seq) - primerLength, Len(seq))))]

\* transcribeDNA
TranscribeDNA(value) ==
  /\ ToolClick("translate", "transcribeDNA", value)
  /\ LET seq == cleanSequence(value)
     IN IF seq = <<>>
        THEN alertMsg' = EnterSequenceAlert /\ UNCHANGED toolResults
        ELSE /\ alertMsg' = "none"
             /\ toolResults' = [kind |-> "rna", text |-> formatSequence(replaceTbyU(seq)),
                                length |-> Len(replaceTbyU(seq))]

\* translateDNA
TranslateDNA(value) ==
  /\ ToolClick("translate", "translateDNA", value)
  /\ LET seq == cleanSequence(value)
     IN IF seq = <<>>
        THEN alertMsg' = EnterSequenceAlert /\ UNCHANGED toolResults
        ELSE LET protein == translateFrom(toRNA(seq), 0)
             IN /\ alertMsg' = "none"
                /\ toolResults' = [kind |-> "protein", text |-> formatSequence(protein),
                                   length |-> Len(protein)]

\* complementDNA
ComplementDNA(value) ==
  /\ ToolClick("complement", "complementDNA", value)
  /\ LET seq == cleanSequence(value)
     IN IF seq = <<>>
        THEN alertMsg' = EnterSequenceAlert /\ UNCHANGED toolResults
        ELSE /\ alertMsg' = "none"
             /\ toolResults' = [kind |-> "complement",
                                text |-> formatSequence(getComplement(seq)),
                                length |-> Len(seq)]

\* reverseComplementDNA
ReverseComplementDNA(value) ==
  /\ ToolClick("complement", "reverseComplementDNA", value)
  /\ LET seq == cleanSequence(value)
     IN IF seq = <<>>
        THEN alertMsg' = EnterSequenceAlert /\ UNCHANGED toolResults
        ELSE /\ alertMsg' = "none"
             /\ toolResults' = [kind |-> "reverse",
                                text |-> formatSequence(getReverseComplement(seq)),
                                length |-> Len(seq)]

NextTools ==
  \/ \E name \in Tools : ShowTool(name)
  \/ CloseTool
  \/ \E value \in SeqInputs : DesignPrimers(value)
  \/ \E value \in SeqInputs : TranscribeDNA(value)
  \/ \E value \in SeqInputs : TranslateDNA(value)
  \/ \E value \in SeqInputs : ComplementDNA(value)
  \/ \E value \in SeqInputs : ReverseComplementDNA(value)

SpecTools == Init /\ [][NextTools]_vars

----------------------------------------------------------------------------
(* Properties of the search engine                                         *)

AllSpaces(s) == \A i \in 1..Len(s) : s[i] = SP

\* the query with the blanks around it removed and its letters lower-cased
NormalizedQuery(raw) ==
  LET cores == {c \in {SubSeq(raw, i, j) : i \in 1..Len(raw), j \in 1..Len(raw)} :
                  /\ c # <<>>
                  /\ c[1] # SP /\ c[Len(c)] # SP
                  /\ \E a, b \in 0..Len(raw) :
                       raw = [k \in 1..a |-> SP] \o c \o [k \in 1..b |-> SP]}
      core == CHOOSE c \in cores : TRUE
  IN [k \in 1..Len(core) |-> LowerOf(core[k])]

\* text contains q at some offset, letter case ignored
ContainsIgnoringCase(text, q) ==
  \E o \in 0..(Len(text) - Len(q)) : \A j \in 1..Len(q) : LowerOf(text[o + j]) = q[j]

HasTextWith(record, q) ==
  \E f \in DOMAIN record :
    record[f].t = "string" /\ ContainsIgnoringCase(record[f].s, q)

\* C1: after a search with a non-empty normalized query q the result set is
\* exactly the records of the store with a string field that contains q, case
\* ignored, in store order; a record without a non-empty string field is never
\* in it.
C1_SearchSelectsMatches ==
  (event = "performSearch" /\ ~AllSpaces(geneSearch)) =>
    LET q == NormalizedQuery(geneSearch)
        hits == {i \in 1..Len(databaseData) : HasTextWith(databaseData[i], q)}
        rank(i) == Cardinality({j \in hits : j <= i})
    IN /\ Len(filteredData) = Cardinality(hits)
       /\ \A i \in hits : filteredData[rank(i)] = databaseData[i]
       /\ \A k \in 1..Len(filteredData) :
            \E f \in DOMAIN filteredData[k] :
              filteredData[k][f].t = "string" /\ filteredData[k][f].s # <<>>

\* a padded upper-case query selected the second of two records and left out the
\* first, which has only empty, null and numeric fields
C1_Witness ==
  /\ event = "performSearch"
  /\ geneSearch = <<SP, "A">>
  /\ Len(databaseData) = 2
  /\ databaseData[1] = [gene_name |-> Str(<<>>), variant |-> Null, id |-> Num(7)]
  /\ filteredData = <<databaseData[2]>>
  /\ databaseData[2].gene_name = Str(<<"A", "b">>)

\* C2: a search with an empty or blank query ends in the prompt view, never in
\* the no-results view, whatever the store holds.
C2_BlankQueryShowsPrompt ==
  (event = "performSearch" /\ AllSpaces(geneSearch)) =>
    /\ dynamicContent.kind = "prompt"
    /\ dynamicContent.kind # "noresults"
    /\ pagination = <<>>

\* a blank query over the loaded, empty store
C2_Witness ==
  /\ event = "performSearch"
  /\ geneSearch = <<SP>>
  /\ loadState = "loaded"
  /\ databaseData = <<>>
  /\ dynamicContent.kind = "prompt"

\* C3: once the load has failed the store exposes no records and the view shows
\* the load error, whatever the user does afterwards.
C3_LoadFailureBlocks ==
  loadState = "failed" =>
    /\ databaseData = <<>>
    /\ dynamicContent.kind = "error"

\* C4: exportResults with an empty result set warns, produces no file and
\* leaves store, result set and page as they were; a file is produced only
\* from a non-empty result set.
C4_EmptyExportWarns ==
  [][ event' = "exportResults" =>
        /\ filteredData = <<>> =>
             /\ alertMsg' = EmptyExportAlert
             /\ ~download'.produced
             /\ UNCHANGED <<databaseData, filteredData, currentPage>>
        /\ download'.produced => (filteredData # <<>> /\ alertMsg' = "none")
    ]_vars

\* export after a search over a non-empty store that matched nothing
C4_Witness ==
  /\ event = "exportResults"
  /\ alertMsg = EmptyExportAlert
  /\ ~download.produced
  /\ databaseData # <<>>
  /\ ~AllSpaces(geneSearch)
  /\ filteredData = <<>>

\* the pieces of text between the occurrences of sep, each with its rank
PieceStarts(text, sep) == {0} \cup {i \in 1..Len(text) : text[i] = sep}
PieceRank(text, sep, p) == Cardinality({q \in PieceStarts(text, sep) : q <= p})
PieceAt(text, sep, p) ==
  LET later == {q \in PieceStarts(text, sep) : q > p}
      stop == IF later = {} THEN Len(text) + 1 ELSE Min(later)
  IN SubSeq(text, p + 1, stop - 1)

\* the fields of a line in which every field is quoted and a quote inside a field
\* is written twice; no fields at all when the line is not of that form
RECURSIVE QuotedFields(_, _, _, _, _)
QuotedFields(line, i, where, cur, acc) ==
  IF i > Len(line)
  THEN IF where = "after" THEN Append(acc, cur) ELSE <<>>
  ELSE CASE where = "start" ->
              IF line[i] = DQ THEN QuotedFields(line, i + 1, "inside", <<>>, acc) ELSE <<>>
         [] where = "inside" ->
              IF line[i] # DQ
              THEN QuotedFields(line, i + 1, "inside", Append(cur, line[i]), acc)
              ELSE IF i < Len(line) /\ line[i + 1] = DQ
              THEN QuotedFields(line, i + 2, "inside", Append(cur, DQ), acc)
              ELSE QuotedFields(line, i + 1, "after", cur, acc)
         [] OTHER ->
              IF line[i] = COMMA
              THEN QuotedFields(line, i + 1, "start", <<>>, Append(acc, cur))
              ELSE <<>>

\* what a column of a record reads as: its text, nothing when it has none
CellText(record, column) ==
  IF column \in DOMAIN record /\ record[column].t = "string"
  THEN record[column].s
  ELSE <<>>

IsTextOrAbsent(record, column) ==
  column \in DOMAIN record => record[column].t = "string"

\* C5: the exported text is the header line followed by one line per result
\* record in result order; a data line is the 14 columns in their fixed order,
\* each quoted with inner quotes doubled, an absent or empty one as "". A result
\* set whose columns are text or absent is always exported.
C5_ExportText ==
  event = "exportResults" =>
    /\ download.produced =>
         LET text == download.text
             starts == PieceStarts(text, NL)
         IN /\ Cardinality(starts) = Len(filteredData) + 1
            /\ \A p \in starts :
                 LET k == PieceRank(text, NL, p)
                     line == PieceAt(text, NL, p)
                 IN IF k = 1
                    THEN /\ Cardinality(PieceStarts(line, COMMA)) = Len(headers)
                         /\ \A c \in PieceStarts(line, COMMA) :
                              PieceAt(line, COMMA, c) = headers[PieceRank(line, COMMA, c)]
                    ELSE QuotedFields(line, 1, "start", <<>>, <<>>)
                           = [c \in 1..Len(Columns) |-> CellText(filteredData[k - 1], Columns[c])]
    /\ ( /\ filteredData # <<>>
         /\ \A k \in 1..Len(filteredData) : \A c \in 1..Len(Columns) :
              IsTextOrAbsent(filteredData[k], Columns[c]) )
       => download.produced

\* two records exported, one with quotes inside its name and a null variant, the
\* next with an empty name
C5_Witness ==
  /\ event = "exportResults"
  /\ download.produced
  /\ Len(filteredData) = 2
  /\ filteredData[1] = [gene_name |-> Str(<<DQ, "a", DQ>>), variant |-> Null]
  /\ filteredData[2] = [gene_name |-> Str(<<>>), variant |-> Str(<<"b", "A">>)]

\* the number of pages needed for n items
PagesFor(n) ==
  CHOOSE t \in 0..n : t * itemsPerPage >= n /\ (t = 0 \/ (t - 1) * itemsPerPage < n)

\* items first..last of a list
Items(list, first, last) == [k \in 1..(last - first + 1) |-> list[first + k - 1]]

LastOfPage(p, n) == IF p * itemsPerPage < n THEN p * itemsPerPage ELSE n

\* C6: with N > 0 results there are ceil(N/10) pages; the displayed page p holds
\* items (p-1)*10+1 .. min(p*10, N) in order, and the pages 1..totalPages taken
\* in turn make up the result set.
C6_PagesPartitionResults ==
  dynamicContent.kind = "results" =>
    LET N == Len(filteredData)
        T == PagesFor(N)
        p == currentPage
    IN /\ N > 0
       /\ totalPagesOf(filteredData) = T
       /\ (T >= 2) = (pagination # <<>>)
       /\ \A k \in DOMAIN pagination :
            pagination[k].type = "page" => pagination[k].target \in 1..T
       /\ pagination # <<>> => \E k \in DOMAIN pagination :
            pagination[k].type = "page" /\ pagination[k].target = T
       /\ p \in 1..T =>
            /\ dynamicContent.rows = Items(filteredData, (p - 1) * itemsPerPage + 1, LastOfPage(p, N))
            /\ dynamicContent.first = (p - 1) * itemsPerPage + 1
            /\ dynamicContent.last = LastOfPage(p, N)
            /\ dynamicContent.total = N
       /\ \A q \in 1..T :
            paginatedDataOf(filteredData, q)
              = Items(filteredData, (q - 1) * itemsPerPage + 1, LastOfPage(q, N))
       /\ Flatten([q \in 1..T |-> paginatedDataOf(filteredData, q)]) = filteredData

\* 25 results, page 3 of 3 shows items 21-25
C6_Witness ==
  /\ dynamicContent.kind = "results"
  /\ Len(filteredData) = 25
  /\ currentPage = 3
  /\ Len(dynamicContent.rows) = 5
  /\ dynamicContent.rows[1].id = Num(21)
  /\ dynamicContent.rows[5].id = Num(25)

\* C7: the rendered controls are previous, the numbered buttons 1, totalPages,
\* c-1, c, c+1 (those in range) in ascending order, and next; two neighbouring
\* buttons are consecutive pages, and a single ellipsis stands between two
\* buttons exactly where pages between them are hidden.
C7_WindowedControls ==
  (pagination # <<>> /\ currentPage \in 1..PagesFor(Len(filteredData))) =>
    LET T == PagesFor(Len(filteredData))
        c == currentPage
        n == Len(pagination)
        inner == SubSeq(pagination, 2, n - 1)
        shown == {inner[k].target : k \in {j \in DOMAIN inner : inner[j].type = "page"}}
    IN /\ T >= 2
       /\ pagination[1].type = "prev" /\ pagination[n].type = "next"
       /\ \A k \in DOMAIN inner : inner[k].type \in {"page", "ellipsis"}
       /\ shown = {1, T, c - 1, c, c + 1} \cap (1..T)
       /\ inner[1].type = "page" /\ inner[Len(inner)].type = "page"
       /\ \A k \in 1..(Len(inner) - 1) :
            (inner[k].type = "page" /\ inner[k + 1].type = "page")
              => inner[k + 1].target = inner[k].target + 1
       /\ \A k \in DOMAIN inner :
            inner[k].type = "ellipsis" =>
              /\ inner[k - 1].type = "page" /\ inner[k + 1].type = "page"
              /\ inner[k + 1].target > inner[k - 1].target + 1

\* page 4 of 7: pages 2 and 6 are hidden, each behind one ellipsis
C7_Witness ==
  /\ Len(filteredData) = 61
  /\ currentPage = 4
  /\ Len(pagination) = 9
  /\ pagination[3] = Ellipsis
  /\ pagination[7] = Ellipsis
  /\ pagination[4].target = 3 /\ pagination[6].target = 5

----------------------------------------------------------------------------
(* Properties of the sequence tools                                        *)

\* the text without its blanks, in upper case
CleanedText(raw) ==
  LET isBase(c) == c # SP
      kept == SelectSeq(raw, isBase)
  IN [i \in 1..Len(kept) |-> UpperOf(kept[i])]

\* a displayed sequence without the blanks that group it
Ungrouped(text) ==
  LET isSymbol(c) == c # SP
  IN SelectSeq(text, isSymbol)

IsDNA(s) == \A i \in 1..Len(s) : s[i] \in {"A", "C", "G", "T"}

\* C8: designPrimers refuses a cleaned sequence of fewer than 40 bases with a
\* warning and leaves the primer output as it was; from 40 bases on it writes
\* the first 20 bases as forward primer and the reverse complement of the last
\* 20 bases as reverse primer, both 20 long.
C8_PrimerLengthGate ==
  [][ event' = "designPrimers" =>
        LET s == CleanedText(seqInput')
            n == Len(s)
        IN IF n < 40
           THEN /\ alertMsg' \in {EnterSequenceAlert, TooShortAlert}
                /\ toolResults' = toolResults
           ELSE /\ alertMsg' = "none"
                /\ toolResults'.kind = "primers"
                /\ toolResults'.forward.seq = [k \in 1..20 |-> s[k]]
                /\ toolResults'.reverse.seq = [k \in 1..20 |-> complementOf(s[n + 1 - k])]
                /\ toolResults'.forward.length = 20
                /\ toolResults'.reverse.length = 20
    ]_vars

\* 41 characters typed, a blank among them: exactly 40 bases, primers written
C8_Witness ==
  /\ event = "designPrimers"
  /\ Len(seqInput) = 41
  /\ Len(CleanedText(seqInput)) = 40
  /\ alertMsg = "none"
  /\ toolResults.kind = "primers"
  /\ Len(toolResults.forward.seq) = 20
  /\ Len(toolResults.reverse.seq) = 20

\* C9: on a sequence over A, C, G, T (the empty one included) taking the reverse
\* complement twice gives the sequence back, and the reverse complement is as
\* long as the sequence; so the reverse complement of a displayed reverse
\* complement is the sequence entered.
C9_ReverseComplementInvolution ==
  LET s == CleanedText(seqInput)
  IN IsDNA(s) =>
       /\ getReverseComplement(getReverseComplement(s)) = s
       /\ Len(getReverseComplement(s)) = Len(s)
       /\ (event = "reverseComplementDNA" /\ alertMsg = "none") =>
            /\ toolResults.kind = "reverse"
            /\ getReverseComplement(Ungrouped(toolResults.text)) = s

\* ATGCCAT entered, ATGGCAT displayed
C9_Witness ==
  /\ event = "reverseComplementDNA"
  /\ seqInput = <<"A", "T", "G", "C", "C", "A", "T">>
  /\ toolResults.kind = "reverse"
  /\ toolResults.text = <<"A", "T", "G", "G", "C", "A", "T">>

\* C10: translateDNA on a non-empty cleaned sequence of n symbols writes
\* floor(n/3) residues; residue k is the table entry of symbols 3k-2..3k with
\* every T read as U, or X when the table has no such codon; symbols after the
\* last whole triplet add nothing.
C10_TranslateTriplets ==
  (event = "translateDNA" /\ alertMsg = "none") =>
    LET s == CleanedText(seqInput)
        n == Len(s)
        u(c) == IF c = "T" THEN "U" ELSE c
        codon(k) == <<u(s[3 * k - 2]), u(s[3 * k - 1]), u(s[3 * k])>>
        protein == Ungrouped(toolResults.text)
    IN /\ n > 0
       /\ toolResults.kind = "protein"
       /\ toolResults.length = n \div 3
       /\ Len(protein) = n \div 3
       /\ \A k \in 1..(n \div 3) :
            protein[k] = IF codon(k) \in DOMAIN codonTable THEN codonTable[codon(k)] ELSE "X"

\* ATGCCAT: two whole triplets AUG, CCA and one symbol left over
C10_Witness ==
  /\ event = "translateDNA"
  /\ seqInput = <<"A", "T", "G", "C", "C", "A", "T">>
  /\ toolResults.kind = "protein"
  /\ toolResults.text = <<"M", "P">>
  /\ toolResults.length = 2

----------------------------------------------------------------------------
(* Properties of the search engine across handlers                         *)

\* C11: whatever searches, page changes and clears came before, after a search
\* with a non-empty query the result set is the matches of that query over the
\* store, the current page is 1 and the view is the first page of those
\* matches (the no-results view when there are none): all of it is determined
\* by the store and the latest query alone.
C11_LatestSearchAlone ==
  (event = "performSearch" /\ ~AllSpaces(geneSearch)) =>
    LET q == NormalizedQuery(geneSearch)
        hits == {i \in 1..Len(databaseData) : HasTextWith(databaseData[i], q)}
        rank(i) == Cardinality({j \in hits : j <= i})
        N == Cardinality(hits)
        shownN == IF N < itemsPerPage THEN N ELSE itemsPerPage
    IN /\ Len(filteredData) = N
       /\ \A i \in hits : filteredData[rank(i)] = databaseData[i]
       /\ currentPage = 1
       /\ IF N = 0
          THEN dynamicContent = NoResultsView /\ pagination = <<>>
          ELSE /\ dynamicContent.kind = "results"
               /\ Len(dynamicContent.rows) = shownN
               /\ \A i \in hits : rank(i) <= shownN =>
                    dynamicContent.rows[rank(i)] = databaseData[i]
               /\ dynamicContent.first = 1
               /\ dynamicContent.last = shownN
               /\ dynamicContent.total = N
               /\ (pagination # <<>>) = (N > itemsPerPage)
               /\ \A k \in DOMAIN pagination :
                    pagination[k].active = (pagination[k].type = "page" /\ pagination[k].target = 1)

\* query "b" over 60 numbered records: 15 matches, page 1 shows records 4..40
C11_Witness ==
  /\ event = "performSearch"
  /\ geneSearch = <<"b">>
  /\ Len(databaseData) = 60
  /\ Len(filteredData) = 15
  /\ currentPage = 1
  /\ Len(dynamicContent.rows) = 10
  /\ dynamicContent.rows[1].id = Num(4)
  /\ dynamicContent.rows[10].id = Num(40)
  /\ pagination # <<>>

\* C12: in every reachable state 1 <= currentPage <= max(1, ceil(N/10)) for the
\* N records of the result set; every enabled previous, numbered or next
\* control targets a page in 1..totalPages, so a click never asks changePage
\* for a page out of range, and a displayed results page is never empty.
C12_PageInRange ==
  LET totalPages == PagesFor(Len(filteredData))
  IN /\ currentPage >= 1
     /\ currentPage <= Max({1, totalPages})
     /\ \A k \in DOMAIN pagination :
          (pagination[k].type \in {"prev", "page", "next"} /\ ~pagination[k].disabled)
            => pagination[k].target \in 1..totalPages
     /\ (event = "changePage" => currentPage \in 1..totalPages)
     /\ (dynamicContent.kind = "results" => dynamicContent.rows # <<>>)

\* the last of the 7 pages of 61 results, reached by a click: one record is
\* shown, the next button is disabled and the previous one leads to page 6
C12_Witness ==
  /\ event = "changePage"
  /\ Len(filteredData) = 61
  /\ currentPage = 7
  /\ dynamicContent.kind = "results"
  /\ Len(dynamicContent.rows) = 1
  /\ pagination # <<>>
  /\ pagination[Len(pagination)].type = "next"
  /\ pagination[Len(pagination)].disabled
  /\ pagination[1].type = "prev"
  /\ ~pagination[1].disabled
  /\ pagination[1].target = 6

\* the data lines of an exported text are the records of data, one line each
\* in order, every column read as its text
HoldsRecords(text, data) ==
  LET starts == PieceStarts(text, NL)
  IN /\ Cardinality(starts) = Len(data) + 1
     /\ \A p \in starts :
          LET k == PieceRank(text, NL, p)
          IN k > 1 =>
               QuotedFields(PieceAt(text, NL, p), 1, "start", <<>>, <<>>)
                 = [c \in 1..Len(Columns) |-> CellText(data[k - 1], Columns[c])]

\* C13: a search with an empty or all-blank query changes only the view (the
\* prompt, no page controls): store, result set and current page stay exactly
\* as they were, whereas clearResults empties the result set; an export issued
\* right after such a search therefore still writes the records that the
\* result set held before it, and warns only when that set was empty.
C13_BlankSearchKeepsResults ==
  [][ /\ (event' = "performSearch" /\ AllSpaces(geneSearch')) =>
           /\ UNCHANGED <<loadState, databaseData, filteredData, currentPage>>
           /\ dynamicContent' = PromptView
           /\ pagination' = <<>>
      /\ event' = "clearResults" => (filteredData' = <<>> /\ currentPage' = 1)
      /\ (event = "performSearch" /\ AllSpaces(geneSearch) /\ event' = "exportResults") =>
           /\ UNCHANGED <<filteredData, currentPage>>
           /\ (alertMsg' = EmptyExportAlert) = (filteredData = <<>>)
           /\ download'.produced => HoldsRecords(download'.text, filteredData)
           /\ ( /\ filteredData # <<>>
                /\ \A k \in 1..Len(filteredData) : \A c \in 1..Len(Columns) :
                     IsTextOrAbsent(filteredData[k], Columns[c]) )
              => download'.produced
    ]_vars

\* 15 results seen on page 2, then a blank query, then an export: the prompt is
\* shown, page 2 is still current and the file holds the 15 records
C13_Witness ==
  /\ event = "exportResults"
  /\ geneSearch = <<SP>>
  /\ dynamicContent = PromptView
  /\ pagination = <<>>
  /\ Len(filteredData) = 15
  /\ currentPage = 2
  /\ download.produced
  /\ HoldsRecords(download.text, filteredData)

\* C14: the store changes at most once, in the step that completes the load
\* successfully, and never after the load has completed; the completion of the
\* load, successful or not, leaves the result set and the current page as they
\* were, and a successful one leaves the view and the page controls as well. A
\* search with a non-empty query made while the load is outstanding runs over
\* the empty store and shows the no-results view, which the later success of
\* the load does not recompute.
C14_LoadWritesStoreOnce ==
  [][ /\ databaseData' # databaseData =>
           (event' = "loadDatabase" /\ loadState = "pending" /\ loadState' = "loaded")
      /\ loadState # "pending" => (databaseData' = databaseData /\ loadState' = loadState)
      /\ loadState' = "pending" => databaseData' = <<>>
      /\ (loadState = "pending" /\ loadState' # "pending") =>
           /\ UNCHANGED <<filteredData, currentPage, geneSearch>>
           /\ loadState' = "loaded" => UNCHANGED <<dynamicContent, pagination>>
      /\ (event' = "performSearch" /\ loadState' = "pending" /\ ~AllSpaces(geneSearch')) =>
           /\ filteredData' = <<>>
           /\ currentPage' = 1
           /\ dynamicContent' = NoResultsView
           /\ pagination' = <<>>
    ]_vars

\* the query "A" was searched before the load completed; the loaded store has
\* records matching it, yet the no-results view and the empty result set remain
C14_Witness ==
  /\ event = "loadDatabase"
  /\ loadState = "loaded"
  /\ geneSearch = <<"A">>
  /\ \E i \in 1..Len(databaseData) :
       HasTextWith(databaseData[i], NormalizedQuery(geneSearch))
  /\ filteredData = <<>>
  /\ currentPage = 1
  /\ dynamicContent = NoResultsView
  /\ pagination = <<>>

====
